---- MODULE Spec2Model ----
(***************************************************************************)
(* Model of src/src/lambda_function.py: one invocation of lambda_handler,  *)
(* which reads the account equity, publishes it, and then runs             *)
(* evaluate_and_trade for every configured symbol.                         *)
(*                                                                         *)
(* Numbers.  Prices are integers.  The indicators are exact rationals      *)
(* [n |-> numerator, d |-> denominator] with d > 0, compared by cross      *)
(* multiplication.  Equity is in whole dollars; RISK_PCT is in hundredths  *)
(* (2 means 0.02), so a notional is in hundredths of a dollar.             *)
(* Strings that the code transforms (the symbols) are sequences of         *)
(* one-character strings.                                                  *)
(***************************************************************************)
EXTENDS Integers, Sequences, FiniteSets, TLC

VARIABLES SYMBOLS, RISK_PCT, MINUTES_HISTORY, pc, idx, equity, results, loc, calls, response,
          bars_df, df_bars

vars == <<SYMBOLS, RISK_PCT, MINUTES_HISTORY, pc, idx, equity, results, loc, calls, response,
          bars_df, df_bars>>

(* ---------------------------- bounds ----------------------------------- *)

\* longest configured symbol list
MaxSymbols == 2

\* most bars in a provider frame, and widest window, when fetch_minute_bars
\* is examined on its own
MaxBars == 4

(* ---------------------------- strings ---------------------------------- *)

IsSpace(ch) == ch = " "

UpperChar(ch) ==
    CASE ch = "a" -> "A"
      [] ch = "b" -> "B"
      [] OTHER -> ch

RECURSIVE LStrip(_)
LStrip(s) ==
    IF s = <<>> THEN <<>>
    ELSE IF IsSpace(Head(s)) THEN LStrip(Tail(s)) ELSE s

RECURSIVE RStrip(_)
RStrip(s) ==
    IF s = <<>> THEN <<>>
    ELSE IF IsSpace(s[Len(s)]) THEN RStrip(SubSeq(s, 1, Len(s) - 1)) ELSE s

\* str.strip()
Strip(s) == RStrip(LStrip(s))

\* str.upper()
Upper(s) == [k \in 1..Len(s) |-> UpperChar(s[k])]

\* sym.strip().upper()
Normalize(s) == Upper(Strip(s))

(* ---------------------------- rationals -------------------------------- *)

Rat(n, d) == [n |-> n, d |-> d]

RatLt(a, b) == a.n * b.d < b.n * a.d

(* ---------------------------- indicators ------------------------------- *)

RSI_PERIOD == 14
EMA_PERIOD == 9

RECURSIVE Pow(_, _)
Pow(b, e) == IF e = 0 THEN 1 ELSE b * Pow(b, e - 1)

RECURSIVE SumSeq(_, _, _)
SumSeq(s, lo, hi) == IF lo > hi THEN 0 ELSE s[lo] + SumSeq(s, lo + 1, hi)

Gain(cl, t) == IF cl[t] > cl[t - 1] THEN cl[t] - cl[t - 1] ELSE 0
Loss(cl, t) == IF cl[t] < cl[t - 1] THEN cl[t - 1] - cl[t] ELSE 0

\* Wilder average gain at position t (1-based, t > RSI_PERIOD), scaled by
\* RSI_PERIOD^(t - RSI_PERIOD): the seed is the plain sum of the first
\* RSI_PERIOD gains, each later step is prev*(n-1) + gain, all over n.
RECURSIVE AvgGainScaled(_, _)
AvgGainScaled(cl, t) ==
    IF t = RSI_PERIOD + 1
    THEN SumSeq([k \in 1..Len(cl) |-> IF k = 1 THEN 0 ELSE Gain(cl, k)], 2, RSI_PERIOD + 1)
    ELSE (RSI_PERIOD - 1) * AvgGainScaled(cl, t - 1)
         + Gain(cl, t) * Pow(RSI_PERIOD, t - RSI_PERIOD - 1)

RECURSIVE AvgLossScaled(_, _)
AvgLossScaled(cl, t) ==
    IF t = RSI_PERIOD + 1
    THEN SumSeq([k \in 1..Len(cl) |-> IF k = 1 THEN 0 ELSE Loss(cl, k)], 2, RSI_PERIOD + 1)
    ELSE (RSI_PERIOD - 1) * AvgLossScaled(cl, t - 1)
         + Loss(cl, t) * Pow(RSI_PERIOD, t - RSI_PERIOD - 1)

\* NaN: every comparison with it is false
NaN == Rat(0, 0)

IsNaN(x) == x.d = 0

\* talib.RSI(close, timeperiod=14): NaN for the first RSI_PERIOD positions,
\* then 100*gain/(gain+loss), and 0 when gain and loss are both 0
RSI(cl) ==
    [t \in 1..Len(cl) |->
        IF t <= RSI_PERIOD THEN NaN
        ELSE LET g == AvgGainScaled(cl, t)
                 l == AvgLossScaled(cl, t)
             IN  IF g + l = 0 THEN Rat(0, 1) ELSE Rat(100 * g, g + l)]

\* EMA numerator at position t >= EMA_PERIOD, scaled by
\* EMA_PERIOD * 5^(t - EMA_PERIOD): the seed is the mean of the first
\* EMA_PERIOD closes, then ema = (close - prev) * 2/(9+1) + prev
\* = (close + 4*prev) / 5
RECURSIVE EmaScaled(_, _)
EmaScaled(cl, t) ==
    IF t = EMA_PERIOD
    THEN SumSeq(cl, 1, EMA_PERIOD)
    ELSE cl[t] * EMA_PERIOD * Pow(5, t - EMA_PERIOD - 1) + 4 * EmaScaled(cl, t - 1)

\* talib.EMA(close, timeperiod=9): NaN for the first EMA_PERIOD - 1 positions
EMA(cl) ==
    [t \in 1..Len(cl) |->
        IF t < EMA_PERIOD THEN NaN
        ELSE Rat(EmaScaled(cl, t), EMA_PERIOD * Pow(5, t - EMA_PERIOD))]

\* DataFrame with columns close, rsi14, ema9
compute_indicators(close_series) ==
    [t \in 1..Len(close_series) |->
        [close |-> close_series[t], rsi14 |-> RSI(close_series)[t], ema9 |-> EMA(close_series)[t]]]

HasNaN(row) == IsNaN(row.rsi14) \/ IsNaN(row.ema9)

\* faulty variant of dropna: the rows with a NaN are kept
dropna_Keep(df) == df

\* DataFrame.dropna(): keeps the rows without a NaN
dropna(df) == SelectSeq(df, LAMBDA row : ~HasNaN(row))

(* ---------------------------- decision rule ---------------------------- *)

\* faulty variant of Decide: non-strict comparisons
Decide_NonStrict(c, rsi, ema9) ==
    IF rsi.n <= 30 * rsi.d /\ c * ema9.d <= ema9.n THEN "BUY"
    ELSE IF rsi.n >= 70 * rsi.d /\ c * ema9.d >= ema9.n THEN "SELL"
    ELSE "NO_SIGNAL"

\* the two `if` conditions of evaluate_and_trade, in their order
Decide(c, rsi, ema9) ==
    IF RatLt(rsi, Rat(30, 1)) /\ RatLt(Rat(c, 1), ema9) THEN "BUY"
    ELSE IF RatLt(Rat(70, 1), rsi) /\ RatLt(ema9, Rat(c, 1)) THEN "SELL"
    ELSE "NO_SIGNAL"

(* ---------------------------- configuration --------------------------- *)

\* os.environ["SYMBOLS"].split(","): the configured list is a prefix of
\* " a,B,b ,A" (str.split never returns an empty list)
ConfiguredSymbols == << <<" ", "a">>, <<"B">>, <<"b", " ">>, <<"A">> >>

SymbolLists == { SubSeq(ConfiguredSymbols, 1, n) : n \in 1..MaxSymbols }

\* RISK_PCT in hundredths: 2 is 0.02
RiskChoices == {2, 50}

MinutesChoices == {14, 15}

(* ---------------------------- the outside world ------------------------ *)

\* acct.equity, whole dollars
EquityChoices == {0, 100000}

\* what get_position returns for an open position
PositionChoices == { [qty |-> 5, unrealized_pl |-> 7], [qty |-> 1, unrealized_pl |-> 0 - 3] }

\* why the venue rejects an order
RejectReasons == {"insufficient funds", "market closed"}

Flat(n, v) == [k \in 1..n |-> v]

\* closing prices the data provider may hold for a symbol, oldest first
CloseSeries ==
    { Flat(8, 10),
      Flat(14, 10),
      Flat(15, 10),
      Flat(12, 10) \o <<8, 8, 8>>,
      Flat(12, 10) \o <<12, 12, 12>>,
      <<10, 11, 10, 11, 10, 11, 10, 11, 10, 11, 10, 11, 10, 11, 12>>,
      <<12, 12>> \o Flat(12, 10) \o <<8, 8, 8>>,
      <<8, 8, 8>> \o Flat(12, 10) \o <<12, 12, 12>> }

Bars(cl) == [k \in 1..Len(cl) |-> [t |-> k, close |-> cl[k]]]

Reverse(s) == [k \in 1..Len(s) |-> s[Len(s) + 1 - k]]

\* bars.df for the request: rows for the symbol in either order, or no row
\* for the symbol at all (the empty sequence)
ProviderFrames ==
    { <<>> } \cup { Bars(cl) : cl \in CloseSeries } \cup { Reverse(Bars(cl)) : cl \in CloseSeries }

(* ---------------------------- fetch_minute_bars ------------------------ *)

RECURSIVE InsertByT(_, _)
InsertByT(sorted, b) ==
    IF sorted = <<>> THEN <<b>>
    ELSE IF b.t < Head(sorted).t THEN <<b>> \o sorted
    ELSE <<Head(sorted)>> \o InsertByT(Tail(sorted), b)

\* df_sym.sort_index()
RECURSIVE SortIndex(_)
SortIndex(s) == IF s = <<>> THEN <<>> ELSE InsertByT(SortIndex(Tail(s)), Head(s))

\* faulty variant of TailRows: the oldest rows are kept
TailRows_Head(s, minutes) ==
    IF Len(s) > minutes THEN SubSeq(s, 1, minutes) ELSE s

\* df_sym.iloc[-minutes:] when len(df_sym) > minutes
TailRows(s, minutes) ==
    IF Len(s) > minutes THEN SubSeq(s, Len(s) - minutes + 1, Len(s)) ELSE s

\* the frame fetch_minute_bars returns for the provider frame `frame`
fetch_minute_bars(frame, minutes) ==
    IF frame = <<>> THEN <<>> ELSE TailRows(SortIndex(frame), minutes)

\* df_bars["close"].astype(float)
CloseOf(df) == [k \in 1..Len(df) |-> df[k].close]

(* ---------------------------- records ---------------------------------- *)

\* locals of the running evaluate_and_trade call
NoLoc ==
    [symbol |-> <<>>, c |-> 0, rsi |-> Rat(0, 1), ema9 |-> Rat(0, 1),
     equity |-> 0, notional |-> 0, order_id |-> 0, qty |-> 0, pnl |-> 0]

\* one external call: op, the loop slot it was made for (0 before the loop),
\* its argument, whether it succeeded and what it returned
Call(op, slot, arg, ok, ret) == [op |-> op, slot |-> slot, arg |-> arg, ok |-> ok, ret |-> ret]

CallsOf(op) == {k \in 1..Len(calls) : calls[k].op = op}

\* the venue numbers the orders it accepts
NextOrderId == 100 + Cardinality({k \in CallsOf("submit_order") : calls[k].ok}) + 1

\* Dimensions of publish_metric(name, value, symbol)
Dims(symbol) == IF symbol = <<>> THEN <<>> ELSE <<[Name |-> "Symbol", Value |-> symbol]>>

Portfolio == <<"Portfolio">>

MetricArg(name, value, symbol) == [MetricName |-> name, Value |-> value, Dimensions |-> Dims(symbol)]

\* faulty variant of Notional: the risk fraction is not applied
Notional_IgnoreRisk(eq, risk) == eq

\* notional = equity * RISK_PCT
Notional(eq, risk) == eq * risk

\* MarketOrderRequest of submit_market_notional_order
MarketNotionalOrder(symbol, side, notional) ==
    [symbol |-> symbol, notional |-> notional, side |-> side, time_in_force |-> "DAY"]

\* faulty variant of MarketQtyOrder: one share is held back
MarketQtyOrder_Partial(symbol, qty) ==
    [symbol |-> symbol, qty |-> qty - 1, side |-> "SELL", time_in_force |-> "DAY"]

\* MarketOrderRequest of the SELL branch
MarketQtyOrder(symbol, qty) ==
    [symbol |-> symbol, qty |-> qty, side |-> "SELL", time_in_force |-> "DAY"]

NoDataRecord(symbol) == [symbol |-> symbol, action |-> "no_data"]

InsufficientDataRecord(symbol) == [symbol |-> symbol, action |-> "insufficient_data"]

BuyRecord(symbol, order_id, notional) ==
    [symbol |-> symbol, action |-> "buy", order_id |-> order_id, notional |-> notional]

SellRecord(symbol, order_id, qty) ==
    [symbol |-> symbol, action |-> "sell", order_id |-> order_id, qty |-> qty]

NothingToSellRecord(symbol) == [symbol |-> symbol, action |-> "nothing_to_sell"]

NoSignalRecord(symbol, rsi, c, ema9) ==
    [symbol |-> symbol, action |-> "no_signal", rsi |-> rsi, close |-> c, ema9 |-> ema9]

ErrorRecord(sym, msg) == [symbol |-> sym, action |-> "error", error |-> msg]

Pending == [status |-> "pending", statusCode |-> 0, body |-> <<>>, error |-> ""]

(* ---------------------------- control flow ----------------------------- *)

cfg == <<SYMBOLS, RISK_PCT, MINUTES_HISTORY>>

\* bars.df as the provider answered it and the frame fetch_minute_bars
\* returned; followed only where the fetch is examined on its own (SpecFetch)
fetch == <<bars_df, df_bars>>

Log(c) == calls' = Append(calls, c)

\* evaluate_and_trade returned rec, or the handler built rec: results.append
Record(rec) ==
    /\ results' = Append(results, rec)
    /\ idx' = idx + 1
    /\ pc' = "loop"
    /\ loc' = NoLoc
    /\ UNCHANGED <<equity, response>>

\* evaluate_and_trade goes on to its next external call
Goto(p, newloc) ==
    /\ pc' = p
    /\ loc' = newloc
    /\ UNCHANGED <<idx, equity, results, response>>

\* an exception in lambda_handler outside the loop's try: the invocation raises
Propagate(msg) ==
    /\ pc' = "raised"
    /\ response' = [status |-> "raised", statusCode |-> 0, body |-> <<>>, error |-> msg]
    /\ UNCHANGED <<idx, equity, results, loc>>

\* `except Exception as e` of lambda_handler
HandlerExcept(msg) == Record(ErrorRecord(SYMBOLS[idx], msg))

\* faulty variant of SellExcept: the exception goes on to the handler
SellExcept_Reraise(msg) == HandlerExcept(msg)

\* `except Exception` of the SELL branch
SellExcept(msg) == Record(NothingToSellRecord(loc.symbol))

MetricError == "metrics unavailable"
AccountError == "account unavailable"
DataError == "market data unavailable"
PositionNotFound == "position does not exist"
PositionError == "position lookup failed"

\* publish_metric(name, value, symbol): cw.put_metric_data may raise
publish_metric(name, value, symbol, onOk, onRaise) ==
    \/ /\ Log(Call("put_metric_data", idx, MetricArg(name, value, symbol), TRUE, "None"))
       /\ onOk
    \/ /\ Log(Call("put_metric_data", idx, MetricArg(name, value, symbol), FALSE, MetricError))
       /\ onRaise

(* ---------------------------- lambda_handler --------------------------- *)

Init ==
    /\ SYMBOLS \in SymbolLists
    /\ RISK_PCT \in RiskChoices
    /\ MINUTES_HISTORY \in MinutesChoices
    /\ pc = "start"
    /\ idx = 0
    /\ equity = 0
    /\ results = <<>>
    /\ loc = NoLoc
    /\ calls = <<>>
    /\ response = Pending
    /\ bars_df = <<>>
    /\ df_bars = <<>>

\* equity = get_portfolio_equity()
HandlerGetEquity ==
    /\ pc = "start"
    /\ \/ \E e \in EquityChoices :
            /\ Log(Call("get_account", 0, <<>>, TRUE, e))
            /\ equity' = e
            /\ pc' = "pre_publish"
            /\ UNCHANGED <<idx, results, loc, response>>
       \/ /\ Log(Call("get_account", 0, <<>>, FALSE, AccountError))
          /\ Propagate(AccountError)
    /\ UNCHANGED <<cfg, fetch>>

\* faulty variant of HandlerPublishEquity: nothing is published
HandlerPublishEquity_Skip ==
    /\ pc = "pre_publish"
    /\ pc' = "loop"
    /\ idx' = 1
    /\ UNCHANGED <<equity, results, loc, response, calls>>
    /\ UNCHANGED <<cfg, fetch>>

\* publish_metric("Equity", equity, "Portfolio"); results = []
HandlerPublishEquity ==
    /\ pc = "pre_publish"
    /\ publish_metric("Equity", equity, Portfolio,
                      pc' = "loop" /\ idx' = 1 /\ UNCHANGED <<equity, results, loc, response>>,
                      Propagate(MetricError))
    /\ UNCHANGED <<cfg, fetch>>

\* what evaluate_and_trade has in hand after fetch_minute_bars,
\* compute_indicators, dropna and iloc[-1], for the provider frame `frame`
Evaluated(frame, minutes) ==
    LET fetched == fetch_minute_bars(frame, minutes)
        indicators == dropna(compute_indicators(CloseOf(fetched)))
    IN  IF fetched = <<>>
        THEN [rows |-> 0, action |-> "no_data", last |-> <<>>]
        ELSE IF indicators = <<>>
        THEN [rows |-> Len(fetched), action |-> "insufficient_data", last |-> <<>>]
        ELSE [rows |-> Len(fetched), action |-> "evaluate", last |-> indicators[Len(indicators)]]

\* the same, for every frame the provider may answer with
EvaluatedFrames == [m \in MinutesChoices |-> { Evaluated(frame, m) : frame \in ProviderFrames }]

\* df_bars = fetch_minute_bars(symbol, MINUTES_HISTORY) up to last = indicators.iloc[-1]
EvalFetch ==
    /\ pc = "loop"
    /\ idx <= Len(SYMBOLS)
    /\ LET symbol == Normalize(SYMBOLS[idx])
           req == [symbol |-> symbol, lookback |-> MINUTES_HISTORY * 2]
       IN  \/ /\ Log(Call("get_stock_bars", idx, req, FALSE, DataError))
              /\ HandlerExcept(DataError)
           \/ \E ev \in EvaluatedFrames[MINUTES_HISTORY] :
                /\ Log(Call("get_stock_bars", idx, req, TRUE, ev.rows))
                /\ CASE ev.action = "no_data" -> Record(NoDataRecord(symbol))
                     [] ev.action = "insufficient_data" -> Record(InsufficientDataRecord(symbol))
                     [] OTHER -> Goto("pub_rsi", [NoLoc EXCEPT !.symbol = symbol,
                                                               !.c = ev.last.close,
                                                               !.rsi = ev.last.rsi14,
                                                               !.ema9 = ev.last.ema9])
    /\ UNCHANGED <<cfg, fetch>>

EvalPublishRsi ==
    /\ pc = "pub_rsi"
    /\ publish_metric("RSI", loc.rsi, loc.symbol, Goto("pub_ema9", loc), HandlerExcept(MetricError))
    /\ UNCHANGED <<cfg, fetch>>

EvalPublishEma9 ==
    /\ pc = "pub_ema9"
    /\ publish_metric("EMA9", loc.ema9, loc.symbol, Goto("pub_price", loc), HandlerExcept(MetricError))
    /\ UNCHANGED <<cfg, fetch>>

\* publish_metric("Price", c, symbol), then the two `if`s
EvalPublishPrice ==
    /\ pc = "pub_price"
    /\ publish_metric("Price", loc.c, loc.symbol,
                      CASE Decide(loc.c, loc.rsi, loc.ema9) = "BUY" -> Goto("buy_account", loc)
                        [] Decide(loc.c, loc.rsi, loc.ema9) = "SELL" -> Goto("sell_position", loc)
                        [] OTHER -> Record(NoSignalRecord(loc.symbol, loc.rsi, loc.c, loc.ema9)),
                      HandlerExcept(MetricError))
    /\ UNCHANGED <<cfg, fetch>>

\* BUY: equity = get_portfolio_equity(); notional = equity * RISK_PCT
BuyGetEquity ==
    /\ pc = "buy_account"
    /\ \/ \E e \in EquityChoices :
            /\ Log(Call("get_account", idx, <<>>, TRUE, e))
            /\ Goto("buy_submit", [loc EXCEPT !.equity = e, !.notional = Notional(e, RISK_PCT)])
       \/ /\ Log(Call("get_account", idx, <<>>, FALSE, AccountError))
          /\ HandlerExcept(AccountError)
    /\ UNCHANGED <<cfg, fetch>>

\* faulty variant of BuySubmit: a rejected order is submitted a second time
BuySubmit_Retry ==
    /\ pc = "buy_submit"
    /\ LET req == MarketNotionalOrder(loc.symbol, "BUY", loc.notional)
       IN  \/ /\ Log(Call("submit_order", idx, req, TRUE, NextOrderId))
              /\ Goto("buy_pub_equity", [loc EXCEPT !.order_id = NextOrderId])
           \/ \E why \in RejectReasons :
                /\ calls' = calls \o << Call("submit_order", idx, req, FALSE, why),
                                        Call("submit_order", idx, req, TRUE, NextOrderId) >>
                /\ Goto("buy_pub_equity", [loc EXCEPT !.order_id = NextOrderId])
    /\ UNCHANGED <<cfg, fetch>>

\* order = submit_market_notional_order(symbol, OrderSide.BUY, notional)
BuySubmit ==
    /\ pc = "buy_submit"
    /\ LET req == MarketNotionalOrder(loc.symbol, "BUY", loc.notional)
       IN  \/ /\ Log(Call("submit_order", idx, req, TRUE, NextOrderId))
              /\ Goto("buy_pub_equity", [loc EXCEPT !.order_id = NextOrderId])
           \/ \E why \in RejectReasons :
                /\ Log(Call("submit_order", idx, req, FALSE, why))
                /\ HandlerExcept(why)
    /\ UNCHANGED <<cfg, fetch>>

BuyPublishEquity ==
    /\ pc = "buy_pub_equity"
    /\ publish_metric("Equity", loc.equity, Portfolio,
                      Goto("buy_pub_notional", loc), HandlerExcept(MetricError))
    /\ UNCHANGED <<cfg, fetch>>

BuyPublishNotional ==
    /\ pc = "buy_pub_notional"
    /\ publish_metric("TradeNotional", loc.notional, loc.symbol,
                      Goto("buy_pub_signal", loc), HandlerExcept(MetricError))
    /\ UNCHANGED <<cfg, fetch>>

\* publish_metric("BuySignal", 1, symbol); return {... "action": "buy" ...}
BuyPublishSignal ==
    /\ pc = "buy_pub_signal"
    /\ publish_metric("BuySignal", 1, loc.symbol,
                      Record(BuyRecord(loc.symbol, loc.order_id, loc.notional)),
                      HandlerExcept(MetricError))
    /\ UNCHANGED <<cfg, fetch>>

\* SELL: pos = trading_client.get_position(symbol), inside the try
SellGetPosition ==
    /\ pc = "sell_position"
    /\ \/ \E pos \in PositionChoices :
            /\ Log(Call("get_position", idx, loc.symbol, TRUE, pos))
            /\ Goto("sell_pub_qty", [loc EXCEPT !.qty = pos.qty, !.pnl = pos.unrealized_pl])
       \/ \E why \in {PositionNotFound, PositionError} :
            /\ Log(Call("get_position", idx, loc.symbol, FALSE, why))
            /\ SellExcept(why)
    /\ UNCHANGED <<cfg, fetch>>

SellPublishQty ==
    /\ pc = "sell_pub_qty"
    /\ publish_metric("TradeQuantity", loc.qty, loc.symbol,
                      Goto("sell_pub_pnl", loc), SellExcept(MetricError))
    /\ UNCHANGED <<cfg, fetch>>

SellPublishPnl ==
    /\ pc = "sell_pub_pnl"
    /\ publish_metric("PnL", loc.pnl, loc.symbol,
                      Goto("sell_submit", loc), SellExcept(MetricError))
    /\ UNCHANGED <<cfg, fetch>>

\* order = trading_client.submit_order(order_data=order_req), inside the try
SellSubmit ==
    /\ pc = "sell_submit"
    /\ LET req == MarketQtyOrder(loc.symbol, loc.qty)
       IN  \/ /\ Log(Call("submit_order", idx, req, TRUE, NextOrderId))
              /\ Goto("sell_pub_signal", [loc EXCEPT !.order_id = NextOrderId])
           \/ \E why \in RejectReasons :
                /\ Log(Call("submit_order", idx, req, FALSE, why))
                /\ SellExcept(why)
    /\ UNCHANGED <<cfg, fetch>>

\* publish_metric("SellSignal", 1, symbol); return {... "action": "sell" ...}
SellPublishSignal ==
    /\ pc = "sell_pub_signal"
    /\ publish_metric("SellSignal", 1, loc.symbol,
                      Record(SellRecord(loc.symbol, loc.order_id, loc.qty)),
                      SellExcept(MetricError))
    /\ UNCHANGED <<cfg, fetch>>

\* return {"statusCode": 200, "body": results}
HandlerReturn ==
    /\ pc = "loop"
    /\ idx > Len(SYMBOLS)
    /\ pc' = "done"
    /\ response' = [status |-> "returned", statusCode |-> 200, body |-> results, error |-> ""]
    /\ UNCHANGED <<idx, equity, results, loc, calls>>
    /\ UNCHANGED <<cfg, fetch>>

Next ==
    \/ HandlerGetEquity
    \/ HandlerPublishEquity
    \/ EvalFetch
    \/ EvalPublishRsi
    \/ EvalPublishEma9
    \/ EvalPublishPrice
    \/ BuyGetEquity
    \/ BuySubmit
    \/ BuyPublishEquity
    \/ BuyPublishNotional
    \/ BuyPublishSignal
    \/ SellGetPosition
    \/ SellPublishQty
    \/ SellPublishPnl
    \/ SellSubmit
    \/ SellPublishSignal
    \/ HandlerReturn

Spec == Init /\ [][Next]_vars

(* ---------------------------- the decision rule alone ------------------ *)

\* latest rows around the thresholds of the rule
RuleRsi == { Rat(n, 1) : n \in {0, 29, 30, 31, 50, 69, 70, 71, 100} }
RuleClose == {9, 10, 11}
RuleEma == { Rat(10, 1), Rat(19, 2), Rat(21, 2) }

\* evaluate_and_trade for the first symbol, about to publish Price and decide,
\* with an arbitrary latest row
InitRule ==
    /\ SYMBOLS = SubSeq(ConfiguredSymbols, 1, 1)
    /\ RISK_PCT = 2
    /\ MINUTES_HISTORY = 15
    /\ pc = "pub_price"
    /\ idx = 1
    /\ equity = 100000
    /\ results = <<>>
    /\ response = Pending
    /\ bars_df = <<>>
    /\ df_bars = <<>>
    /\ \E c \in RuleClose, rsi \in RuleRsi, ema9 \in RuleEma :
         LET symbol == Normalize(SYMBOLS[1])
         IN  /\ loc = [NoLoc EXCEPT !.symbol = symbol, !.c = c, !.rsi = rsi, !.ema9 = ema9]
             /\ calls = << Call("get_account", 0, <<>>, TRUE, 100000),
                           Call("put_metric_data", 0, MetricArg("Equity", 100000, Portfolio), TRUE, "None"),
                           Call("get_stock_bars", 1, [symbol |-> symbol, lookback |-> 30], TRUE, 15),
                           Call("put_metric_data", 1, MetricArg("RSI", rsi, symbol), TRUE, "None"),
                           Call("put_metric_data", 1, MetricArg("EMA9", ema9, symbol), TRUE, "None") >>

NextRule == EvalPublishPrice

SpecRule == InitRule /\ [][NextRule]_vars

(* ---------------------------- fetch_minute_bars alone ------------------ *)

\* close of the bar stamped t, not monotone in t
CloseAt(t) == 10 + ((t * t) % 5)

\* the sequences without repetition over S
RECURSIVE DistinctSeqs(_)
DistinctSeqs(S) ==
    { <<>> } \cup UNION { { <<x>> \o q : q \in DistinctSeqs(S \ {x}) } : x \in S }

\* bars.df for a symbol: any bars with distinct timestamps, in any order, or none
FetchFrames ==
    { [k \in 1..Len(q) |-> [t |-> q[k], close |-> CloseAt(q[k])]] : q \in DistinctSeqs(1..MaxBars) }

FetchWindows == 1..MaxBars

\* lambda_handler about to run evaluate_and_trade for the first symbol, with
\* an arbitrary provider frame and lookback window
InitFetch ==
    /\ SYMBOLS = SubSeq(ConfiguredSymbols, 1, 1)
    /\ RISK_PCT = 2
    /\ MINUTES_HISTORY \in FetchWindows
    /\ pc = "loop"
    /\ idx = 1
    /\ equity = 100000
    /\ results = <<>>
    /\ loc = NoLoc
    /\ calls = << Call("get_account", 0, <<>>, TRUE, 100000),
                  Call("put_metric_data", 0, MetricArg("Equity", 100000, Portfolio), TRUE, "None") >>
    /\ response = Pending
    /\ bars_df \in FetchFrames
    /\ df_bars = <<>>

\* df_bars = fetch_minute_bars(symbol, MINUTES_HISTORY); if df_bars.empty: return no_data
FetchBars ==
    /\ pc = "loop"
    /\ idx <= Len(SYMBOLS)
    /\ LET symbol == Normalize(SYMBOLS[idx])
           req == [symbol |-> symbol, lookback |-> MINUTES_HISTORY * 2]
           df == fetch_minute_bars(bars_df, MINUTES_HISTORY)
       IN  \/ /\ Log(Call("get_stock_bars", idx, req, FALSE, DataError))
              /\ df_bars' = df_bars
              /\ HandlerExcept(DataError)
           \/ /\ Log(Call("get_stock_bars", idx, req, TRUE, Len(df)))
              /\ df_bars' = df
              /\ IF df = <<>>
                 THEN Record(NoDataRecord(symbol))
                 ELSE Goto("fetched", [NoLoc EXCEPT !.symbol = symbol])
    /\ UNCHANGED <<cfg, bars_df>>

NextFetch == FetchBars

SpecFetch == InitFetch /\ [][NextFetch]_vars

(* ---------------------------- reading the call log --------------------- *)

Recorded == 1..Len(results)

SlotCalls(i) == {k \in 1..Len(calls) : calls[k].slot = i}

OpCalls(i, op) == {k \in SlotCalls(i) : calls[k].op = op}

MetricCalls(i, name) == {k \in OpCalls(i, "put_metric_data") : calls[k].arg.MetricName = name}

MetricValue(i, name) == calls[CHOOSE k \in MetricCalls(i, name) : TRUE].arg.Value

FailedCalls(i) == {k \in SlotCalls(i) : ~calls[k].ok}

\* the position lookup answered that the symbol has no open position
NotFoundCalls(i) ==
    {k \in OpCalls(i, "get_position") : ~calls[k].ok /\ calls[k].ret = PositionNotFound}

\* some call of the slot failed, other than with position-not-found
RaisedIn(i) == FailedCalls(i) \ NotFoundCalls(i) # {}

\* the rule of the specification, on the row the slot published
RuleBuy(c, rsi, ema9) == rsi.n < 30 * rsi.d /\ c * ema9.d < ema9.n
RuleSell(c, rsi, ema9) == rsi.n > 70 * rsi.d /\ c * ema9.d > ema9.n

\* the slot published its row and went on to the decision
Decided(i) == \E k \in MetricCalls(i, "Price") : calls[k].ok

BuyFired(i) ==
    Decided(i) /\ RuleBuy(MetricValue(i, "Price"), MetricValue(i, "RSI"), MetricValue(i, "EMA9"))

SellFired(i) ==
    Decided(i) /\ RuleSell(MetricValue(i, "Price"), MetricValue(i, "RSI"), MetricValue(i, "EMA9"))

\* number of rows fetch_minute_bars returned for the slot
FetchedRows(i) == calls[CHOOSE k \in OpCalls(i, "get_stock_bars") : TRUE].ret

Fetched(i) == \E k \in OpCalls(i, "get_stock_bars") : calls[k].ok

(* ---------------------------- properties ------------------------------ *)

\* C1: when the invocation returns, the body has one record per configured
\* symbol, in order, and a symbol's record is the error record exactly when
\* a call of that symbol's pipeline failed.
C1_EverySymbolIsolated ==
    pc = "done" =>
        /\ Len(response.body) = Len(SYMBOLS)
        /\ \A i \in 1..Len(SYMBOLS) :
             (response.body[i].action = "error") <=> RaisedIn(i)

\* C2: an invocation that has ended has returned statusCode 200 with one
\* record per configured symbol; it never ends by raising.
C2_NeverRaises ==
    pc \in {"done", "raised"} =>
        /\ response.status = "returned"
        /\ response.statusCode = 200
        /\ Len(response.body) = Len(SYMBOLS)

\* C3: a symbol whose order submission the venue rejected, on the BUY or on
\* the SELL path, is recorded as an error carrying the venue's message.
C3_RejectionIsError ==
    \A i \in Recorded :
        \A k \in OpCalls(i, "submit_order") :
            ~calls[k].ok =>
                /\ results[i].action = "error"
                /\ results[i].error = calls[k].ret

\* C4: nothing_to_sell is recorded only when the SELL rule fired and the
\* position lookup answered not-found, and no other call of the pipeline failed.
C4_NothingToSellMeansNotFound ==
    \A i \in Recorded :
        results[i].action = "nothing_to_sell" =>
            /\ SellFired(i)
            /\ NotFoundCalls(i) # {}
            /\ ~RaisedIn(i)

\* C5: a pipeline in which only metric publications failed ends with the
\* outcome of the run in which they succeed: never an error record, and never
\* nothing_to_sell (the position lookup, if made, succeeded).
C5_MetricsBestEffort ==
    \A i \in Recorded :
        (FailedCalls(i) # {} /\ FailedCalls(i) \subseteq OpCalls(i, "put_metric_data")) =>
            results[i].action \notin {"error", "nothing_to_sell"}

\* C6: when the SELL rule fired and the position lookup answered not-found,
\* the symbol's record is exactly {symbol, action: nothing_to_sell}, nothing
\* was raised to the handler, and no order was submitted for the symbol.
C6_NoPositionNothingToSell ==
    \A i \in 1..Len(SYMBOLS) :
        NotFoundCalls(i) # {} =>
            /\ SellFired(i)
            /\ i \in Recorded
            /\ results[i].action = "nothing_to_sell"
            /\ results[i].symbol = Normalize(SYMBOLS[i])
            /\ DOMAIN results[i] = {"symbol", "action"}
            /\ OpCalls(i, "submit_order") = {}
            /\ pc # "raised"

C6_Witness ==
    \E i \in Recorded :
        /\ SellFired(i)
        /\ NotFoundCalls(i) # {}
        /\ results[i].action = "nothing_to_sell"

\* C7: once the row is published, the pipeline takes the BUY branch exactly
\* when rsi < 30 and close < ema9, the SELL branch exactly when rsi > 70 and
\* close > ema9, and records no_signal otherwise; never both, and a row with
\* rsi = 30, rsi = 70 or close = ema9 gives no_signal.
C7_DecisionRule ==
    (pc # "pub_price" /\ Decided(1)) =>
        LET c == MetricValue(1, "Price")
            rsi == MetricValue(1, "RSI")
            ema9 == MetricValue(1, "EMA9")
            buy == rsi.n < 30 * rsi.d /\ c * ema9.d < ema9.n
            sell == rsi.n > 70 * rsi.d /\ c * ema9.d > ema9.n
            none == pc = "loop" /\ Len(results) = 1 /\ results[1].action = "no_signal"
        IN  /\ (pc = "buy_account") <=> buy
            /\ (pc = "sell_position") <=> sell
            /\ none <=> (~buy /\ ~sell)
            /\ ~(pc = "buy_account" /\ pc = "sell_position")
            /\ ~(buy /\ sell)
            /\ (rsi.n = 30 * rsi.d \/ rsi.n = 70 * rsi.d \/ c * ema9.d = ema9.n) => none

\* rsi exactly 30 with close below ema9 was decided: no_signal
C7_Witness ==
    /\ pc = "loop"
    /\ Len(results) = 1
    /\ results[1].action = "no_signal"
    /\ results[1].rsi = Rat(30, 1)
    /\ results[1].close * results[1].ema9.d < results[1].ema9.n

\* C8 as stated: a symbol for which fewer than 15 closes were fetched is
\* recorded as insufficient_data and no order is submitted for it.
C8_ShortHistoryInsufficient ==
    \A i \in Recorded :
        (Fetched(i) /\ FetchedRows(i) < 15) =>
            /\ results[i].action = "insufficient_data"
            /\ OpCalls(i, "submit_order") = {}

\* C8 amended: a symbol for which at least one and fewer than 15 closes were
\* fetched is recorded as insufficient_data, one for which none were fetched
\* as no_data; in both cases no order is submitted for it.
C8_ShortHistoryNoTrade ==
    \A i \in 1..Len(SYMBOLS) :
        (Fetched(i) /\ FetchedRows(i) < 15) =>
            /\ i \in Recorded
            /\ FetchedRows(i) = 0 => results[i].action = "no_data"
            /\ FetchedRows(i) >= 1 => results[i].action = "insufficient_data"
            /\ OpCalls(i, "submit_order") = {}
            /\ OpCalls(i, "put_metric_data") = {}

\* 14 closes, with a lookback window that allows 15
C8_Witness ==
    \E i \in Recorded :
        /\ MINUTES_HISTORY = 15
        /\ Fetched(i)
        /\ FetchedRows(i) = 14
        /\ results[i].action = "insufficient_data"

\* the equity is read first and, once the loop runs, has been published as
\* the portfolio-level Equity metric before any call of a symbol's pipeline
EquityReadAndPublishedFirst ==
    /\ calls # <<>> => (calls[1].op = "get_account" /\ calls[1].slot = 0)
    /\ idx >= 1 =>
         /\ Len(calls) >= 2
         /\ calls[1].ok
         /\ calls[1].ret = equity
         /\ calls[2].op = "put_metric_data"
         /\ calls[2].slot = 0
         /\ calls[2].ok
         /\ calls[2].arg = MetricArg("Equity", equity, Portfolio)
    /\ \A k \in 1..Len(calls) : calls[k].slot = 0 => k <= 2

\* C9 as stated: the equity is read once, before the per-symbol work, and
\* published then; no symbol's pipeline reads the account.
C9_EquityReadOnce ==
    /\ EquityReadAndPublishedFirst
    /\ \A k \in CallsOf("get_account") : k = 1

\* C9 amended: the equity is read once before the per-symbol work and
\* published then; the only later reads are by a symbol whose BUY rule
\* fired, once for that symbol, before its order.
C9_EquityReadBeforeLoop ==
    /\ EquityReadAndPublishedFirst
    /\ \A k \in CallsOf("get_account") :
         k > 1 =>
            /\ calls[k].slot >= 1
            /\ BuyFired(calls[k].slot)
            /\ OpCalls(calls[k].slot, "get_account") = {k}
            /\ \A o \in OpCalls(calls[k].slot, "submit_order") : k < o

\* a BUY symbol read an equity other than the one read before the loop
C9_Witness ==
    \E k \in CallsOf("get_account") :
        /\ k > 1
        /\ calls[k].ok
        /\ calls[1].ret # calls[k].ret
        /\ calls[2].op = "put_metric_data"
        /\ calls[2].ok

\* C10: for a symbol whose BUY rule fired, at most one order is submitted:
\* a market BUY for the normalized symbol, time in force DAY, notional =
\* the equity read for it times RISK_PCT; if none of its calls failed the
\* record is the buy record, and a buy record carries the identifier the
\* venue returned and the notional of the submitted order.
C10_BuyOrder ==
    \A i \in 1..Len(SYMBOLS) :
        BuyFired(i) =>
            /\ Cardinality(OpCalls(i, "submit_order")) <= 1
            /\ \A k \in OpCalls(i, "submit_order") :
                 \E a \in OpCalls(i, "get_account") :
                    /\ a < k
                    /\ calls[a].ok
                    /\ calls[k].arg = [symbol |-> Normalize(SYMBOLS[i]),
                                       notional |-> calls[a].ret * RISK_PCT,
                                       side |-> "BUY",
                                       time_in_force |-> "DAY"]
            /\ (i \in Recorded /\ FailedCalls(i) = {}) =>
                 /\ results[i].action = "buy"
                 /\ Cardinality(OpCalls(i, "submit_order")) = 1
            /\ (i \in Recorded /\ results[i].action = "buy") =>
                 \E k \in OpCalls(i, "submit_order") :
                    /\ calls[k].ok
                    /\ results[i].symbol = Normalize(SYMBOLS[i])
                    /\ results[i].order_id = calls[k].ret
                    /\ results[i].notional = calls[k].arg.notional

\* equity 100000 with risk fraction 0.02: a buy record of notional 2000.00
C10_Witness ==
    \E i \in Recorded :
        /\ BuyFired(i)
        /\ RISK_PCT = 2
        /\ results[i].action = "buy"
        /\ results[i].notional = 200000
        /\ \E a \in OpCalls(i, "get_account") : calls[a].ret = 100000

\* C11: for a symbol whose SELL rule fired, at most one order is submitted,
\* and only after the position lookup returned an open position: a market
\* SELL, time in force DAY, for exactly the quantity of that position, and
\* the position's quantity and unrealized P&L were published, between the
\* lookup and the submission; if none of its calls failed the record is the
\* sell record with that quantity.
C11_SellWholePosition ==
    \A i \in 1..Len(SYMBOLS) :
        SellFired(i) =>
            /\ Cardinality(OpCalls(i, "submit_order")) <= 1
            /\ \A k \in OpCalls(i, "submit_order") :
                 \E p \in OpCalls(i, "get_position") :
                    /\ p < k
                    /\ calls[p].ok
                    /\ calls[k].arg = [symbol |-> Normalize(SYMBOLS[i]),
                                       qty |-> calls[p].ret.qty,
                                       side |-> "SELL",
                                       time_in_force |-> "DAY"]
                    /\ \E q \in MetricCalls(i, "TradeQuantity") :
                         /\ p < q /\ q < k
                         /\ calls[q].ok
                         /\ calls[q].arg.Value = calls[p].ret.qty
                    /\ \E n \in MetricCalls(i, "PnL") :
                         /\ p < n /\ n < k
                         /\ calls[n].ok
                         /\ calls[n].arg.Value = calls[p].ret.unrealized_pl
            /\ (i \in Recorded /\ FailedCalls(i) = {}) =>
                 /\ results[i].action = "sell"
                 /\ \E k \in OpCalls(i, "submit_order") :
                      /\ calls[k].ok
                      /\ results[i].qty = calls[k].arg.qty
                      /\ results[i].order_id = calls[k].ret

\* a position of 5 shares was sold whole
C11_Witness ==
    \E i \in Recorded :
        /\ SellFired(i)
        /\ results[i].action = "sell"
        /\ results[i].qty = 5
        /\ \E p \in OpCalls(i, "get_position") : calls[p].ok /\ calls[p].ret.qty = 5

\* C12: every record, the error record included, names the trimmed,
\* upper-cased form of the configured symbol.
C12_RecordsNameNormalizedSymbol ==
    \A i \in Recorded : results[i].symbol = Normalize(SYMBOLS[i])

\* C13: the request asks for a lookback of at least twice the window; the
\* frame fetch_minute_bars returns is ascending by timestamp, no longer than
\* the window, made of the most recent bars of the provider's frame (all of
\* them when the provider sent no more than the window), and when the provider
\* has no bar for the symbol it is empty, nothing is raised and the record is
\* no_data.
C13_FetchWindow ==
    /\ \A k \in CallsOf("get_stock_bars") :
         /\ calls[k].arg.lookback >= 2 * MINUTES_HISTORY
         /\ calls[k].arg.symbol = Normalize(SYMBOLS[calls[k].slot])
    /\ Fetched(1) =>
         LET received == {bars_df[k] : k \in 1..Len(bars_df)}
             returned == {df_bars[k] : k \in 1..Len(df_bars)}
         IN  /\ \A k \in 1..(Len(df_bars) - 1) : df_bars[k].t < df_bars[k + 1].t
             /\ Len(df_bars) <= MINUTES_HISTORY
             /\ Len(df_bars) = IF Len(bars_df) > MINUTES_HISTORY
                               THEN MINUTES_HISTORY ELSE Len(bars_df)
             /\ returned \subseteq received
             /\ \A old \in received \ returned : \A new \in returned : old.t < new.t
             /\ bars_df = <<>> =>
                  /\ df_bars = <<>>
                  /\ pc = "loop"
                  /\ results = <<NoDataRecord(Normalize(SYMBOLS[1]))>>
             /\ bars_df # <<>> => (pc = "fetched" /\ results = <<>>)

\* more bars than the window were received, out of order
C13_Witness ==
    /\ pc = "fetched"
    /\ MINUTES_HISTORY >= 2
    /\ Len(bars_df) > MINUTES_HISTORY
    /\ bars_df[1].t > bars_df[2].t
    /\ Len(df_bars) = MINUTES_HISTORY

\* C14: when the invocation returns, a symbol for which the venue accepted
\* an order has a buy or sell record carrying that order's identifier (so a
\* record with any other action means no order was accepted for the symbol).
C14_AcceptedOrdersReported ==
    pc = "done" =>
        \A i \in 1..Len(SYMBOLS) :
            \A k \in OpCalls(i, "submit_order") :
                calls[k].ok =>
                    /\ response.body[i].action \in {"buy", "sell"}
                    /\ response.body[i].order_id = calls[k].ret

\* C15: for every entry of the symbol list at most one order submission is
\* attempted, a rejected submission is the last call made for the entry, a
\* submission comes only after the row was published and the BUY rule (for a
\* BUY order) or the SELL rule (for a SELL order) fired, and an entry recorded
\* as no_data, insufficient_data or no_signal made no account read, no
\* position read and no order submission.
C15_OrdersOnlyOnSignalAndOnce ==
    \A i \in 1..Len(SYMBOLS) :
        /\ Cardinality(OpCalls(i, "submit_order")) <= 1
        /\ \A k \in OpCalls(i, "submit_order") :
             /\ ~calls[k].ok => \A j \in SlotCalls(i) : j <= k
             /\ \E d \in MetricCalls(i, "Price") : d < k /\ calls[d].ok
             /\ \/ BuyFired(i) /\ calls[k].arg.side = "BUY"
                \/ SellFired(i) /\ calls[k].arg.side = "SELL"
        /\ (i \in Recorded /\ results[i].action \in {"no_data", "insufficient_data", "no_signal"}) =>
             /\ OpCalls(i, "get_account") = {}
             /\ OpCalls(i, "get_position") = {}
             /\ OpCalls(i, "submit_order") = {}

\* a rejected BUY order was not submitted again, and a later entry of the
\* list ended with no_signal
C15_Witness ==
    \E i \in Recorded, j \in Recorded :
        /\ i < j
        /\ BuyFired(i)
        /\ \E k \in OpCalls(i, "submit_order") : ~calls[k].ok
        /\ Cardinality(OpCalls(i, "submit_order")) = 1
        /\ results[i].action = "error"
        /\ results[j].action = "no_signal"

====
